---- MODULE Spec2Model ----
(***************************************************************************)
(* Worklog document model of code-diary (skills/code-diary/scripts/        *)
(* log_work.cjs with get_week_info.cjs and format_worklog.cjs).            *)
(*                                                                         *)
(* A JavaScript string is a sequence of one-character strings.  The        *)
(* content of a file is kept as content.split('\n'): a non-empty sequence  *)
(* of lines, so that "# T\n" is << "# T", "" >>.  A Date is the number of  *)
(* days since 1970-01-01 (every Date of the program is a UTC midnight).    *)
(***************************************************************************)
EXTENDS Integers, Sequences, FiniteSets, TLC

\* ------------------------------------------------------------------------
\* Characters and strings
\* ------------------------------------------------------------------------
DigitChars == <<"0", "1", "2", "3", "4", "5", "6", "7", "8", "9">>

Digit == {DigitChars[i] : i \in 1..10}

Upper == {"A", "B", "C", "D", "E", "F", "G", "H", "I", "J", "K", "L", "M",
          "N", "O", "P", "Q", "R", "S", "T", "U", "V", "W", "X", "Y", "Z"}

DigitVal(c) == (CHOOSE i \in 1..10 : DigitChars[i] = c) - 1

SetMax(S) == CHOOSE x \in S : \A y \in S : y <= x

SetMin(S) == CHOOSE x \in S : \A y \in S : x <= y

\* The element of a one-element set.  {e(v) : v \in {x}} is how a value is
\* given a name (a const or let of the code): x is computed once.
Only(S) == CHOOSE x \in S : TRUE

StartsWith(line, prefix) ==
  /\ Len(line) >= Len(prefix)
  /\ SubSeq(line, 1, Len(prefix)) = prefix

\* Last index of the longest run of characters of class Cls that starts at
\* index i (i - 1 when line[i] is not in Cls): a greedy Cls* of a regex.
RunEnd(line, i, Cls) ==
  SetMax({j \in (i - 1)..Len(line) : \A k \in i..j : line[k] \in Cls})

\* String(n) for an integer n >= 0.
RECURSIVE ToStr(_)
ToStr(n) == IF n < 10 THEN <<DigitChars[n + 1]>>
            ELSE ToStr(n \div 10) \o <<DigitChars[(n % 10) + 1]>>

\* s.padStart(2, '0')
PadStart2(s) == IF Len(s) < 2 THEN <<"0">> \o s ELSE s

\* parseInt(s) for a non-empty string of digits.
RECURSIVE ParseInt(_)
ParseInt(s) == IF Len(s) = 1 THEN DigitVal(s[1])
               ELSE 10 * ParseInt(SubSeq(s, 1, Len(s) - 1)) + DigitVal(s[Len(s)])

\* s.replace(/\//g, '-')
SlashToDash(s) == [i \in 1..Len(s) |-> IF s[i] = "/" THEN "-" ELSE s[i]]

\* ------------------------------------------------------------------------
\* The Date built-in, as the scripts use it
\* ------------------------------------------------------------------------
NaN == -1000000

\* Date.UTC(y, m - 1, d) in days: day number of a civil date.
DaysFromCivil(y, m, d) ==
  LET yy  == IF m <= 2 THEN y - 1 ELSE y
      era == yy \div 400
      yoe == yy - era * 400
      mp  == IF m > 2 THEN m - 3 ELSE m + 9
      doy == (153 * mp + 2) \div 5 + d - 1
      doe == yoe * 365 + yoe \div 4 - yoe \div 100 + doy
  IN  era * 146097 + doe - 719468

\* The year, month (1..12) and day of month of a day number.
CivilFromDays(z) ==
  LET zz  == z + 719468
      era == zz \div 146097
      doe == zz - era * 146097
      yoe == (doe - doe \div 1460 + doe \div 36524 - doe \div 146096) \div 365
      doy == doe - (365 * yoe + yoe \div 4 - yoe \div 100)
      mp  == (5 * doy + 2) \div 153
      d   == doy - (153 * mp + 2) \div 5 + 1
      m   == IF mp < 10 THEN mp + 3 ELSE mp - 9
      y   == yoe + era * 400 + (IF m <= 2 THEN 1 ELSE 0)
  IN  [year |-> y, month |-> m, day |-> d]

\* new Date(s) for a date-only string: "YYYY-MM-DD" is UTC midnight of that
\* day (the engine takes any day 1..31 and lets it run over into the next
\* month); any other string of the modelled inputs is an Invalid Date.
DateParse(s) ==
  IF /\ Len(s) = 10
     /\ \A i \in {1, 2, 3, 4, 6, 7, 9, 10} : s[i] \in Digit
     /\ s[5] = "-" /\ s[8] = "-"
     /\ ParseInt(SubSeq(s, 6, 7)) \in 1..12
     /\ ParseInt(SubSeq(s, 9, 10)) \in 1..31
  THEN DaysFromCivil(ParseInt(SubSeq(s, 1, 4)), ParseInt(SubSeq(s, 6, 7)), 1)
         + ParseInt(SubSeq(s, 9, 10)) - 1
  ELSE NaN

\* The local calendar day of a UTC-midnight Date: the same day in a zone at
\* or ahead of UTC, the day before in a zone behind UTC.
LocalDays(t, behind) == IF behind THEN t - 1 ELSE t

\* getFullYear(), getMonth() + 1, getDate()
LocalCivil(t, behind) == CivilFromDays(LocalDays(t, behind))

\* getUTCDay() of a day number: 0 = Sunday .. 6 = Saturday.
UTCDay(z) == (z + 4) % 7

\* ------------------------------------------------------------------------
\* get_week_info.cjs
\* ------------------------------------------------------------------------
\* getWeekNumber(date): the date is read with the local getters, moved to
\* the Thursday of its week, and counted in weeks from 1 January.
getWeekNumber(t, behind) ==
  LET c         == LocalCivil(t, behind)
      d         == DaysFromCivil(c.year, c.month, c.day)
      dayNum    == IF UTCDay(d) = 0 THEN 7 ELSE UTCDay(d)
      thursday  == d + 4 - dayNum
      yearStart == DaysFromCivil(CivilFromDays(thursday).year, 1, 1)
  IN  ((thursday - yearStart + 1) + 6) \div 7

\* weekInfo.month: `${year}-${month}` with the month padded to two digits.
MonthKey(t, behind) ==
  LET c == LocalCivil(t, behind)
  IN  ToStr(c.year) \o <<"-">> \o PadStart2(ToStr(c.month))

\* weekInfo.weekHeader: `Week ${weekNum}`
WeekHeaderText(n) == <<"W", "e", "e", "k", " ">> \o ToStr(n)

\* date.toISOString().slice(0, 10) of a day number: YYYY-MM-DD.
ISODate(z) ==
  LET c == CivilFromDays(z)
  IN  ToStr(c.year) \o <<"-">> \o PadStart2(ToStr(c.month))
        \o <<"-">> \o PadStart2(ToStr(c.day))

\* getWeekRange(date): getDay, getDate and setDate work on the local day;
\* toISOString gives the UTC day of the instant, which in a zone behind UTC
\* is the day after the local day.
getWeekRange(t, behind) ==
  LET local  == LocalDays(t, behind)
      day    == UTCDay(local)
      monday == local - day + (IF day = 0 THEN -6 ELSE 1)
      sunday == monday + 6
      utc(z) == IF behind THEN z + 1 ELSE z
  IN  [start |-> ISODate(utc(monday)), end |-> ISODate(utc(sunday))]

\* new Date(): the clock of the model stands at UTC midnight of this day.
Now == DaysFromCivil(2026, 1, 28)

\* The result of getWeekInfo for an Invalid Date: the Error it throws.
InvalidDate ==
  [error |-> TRUE, date |-> <<>>, month |-> <<>>, weekNumber |-> 0,
   weekHeader |-> <<>>, weekRange |-> [start |-> <<>>, end |-> <<>>]]

\* getWeekInfo(dateStr): the fields of the result (the two toLocaleDateString
\* headers are left out), or an error when the string is not a date.  A
\* falsy dateStr (null, undefined, the empty string) reads the clock.
getWeekInfo(dateStr, behind) ==
  Only({IF t = NaN THEN InvalidDate
        ELSE [error      |-> FALSE,
              date       |-> ISODate(t),
              month      |-> MonthKey(t, behind),
              weekNumber |-> getWeekNumber(t, behind),
              weekHeader |-> WeekHeaderText(getWeekNumber(t, behind)),
              weekRange  |-> getWeekRange(t, behind)] :
        t \in {IF dateStr = <<>> THEN Now ELSE DateParse(dateStr)}})

\* ------------------------------------------------------------------------
\* log_work.cjs: dates
\* ------------------------------------------------------------------------
\* formatDateHeader(dateStr): YYYY/MM/DD of the local day.
formatDateHeader(dateStr, behind) ==
  LET c == LocalCivil(DateParse(dateStr), behind)
  IN  ToStr(c.year) \o <<"/">> \o PadStart2(ToStr(c.month))
        \o <<"/">> \o PadStart2(ToStr(c.day))

\* A comparison that returns d1 - d2: oldest first.
compareDatesAscending(dateStr1, dateStr2) ==
  LET d1 == DateParse(SlashToDash(dateStr1))
      d2 == DateParse(SlashToDash(dateStr2))
  IN  IF d1 = NaN \/ d2 = NaN THEN NaN ELSE d1 - d2

\* compareDates(dateStr1, dateStr2): d2 - d1, negative when dateStr1 is the
\* later day; NaN when either string is not a date.
compareDates(dateStr1, dateStr2) ==
  LET d1 == DateParse(SlashToDash(dateStr1))
      d2 == DateParse(SlashToDash(dateStr2))
  IN  IF d1 = NaN \/ d2 = NaN THEN NaN ELSE d2 - d1

\* ------------------------------------------------------------------------
\* log_work.cjs: parseWorklog
\* ------------------------------------------------------------------------
WeekPrefix == <<"#", "#", " ", "W", "e", "e", "k", " ">>

DayPrefix == <<"#", "#", "#", " ">>

\* line.match(/^## Week \d+/)
IsWeekHeader(line) ==
  /\ StartsWith(line, WeekPrefix)
  /\ Len(line) > Len(WeekPrefix)
  /\ line[Len(WeekPrefix) + 1] \in Digit

\* parseInt(line.match(/\d+/)[0]): the first run of digits of the line.
FirstNumber(line) ==
  LET i == SetMin({k \in 1..Len(line) : line[k] \in Digit})
  IN  ParseInt(SubSeq(line, i, RunEnd(line, i, Digit)))

\* line.match(/^### \d{4}\/\d{2}\/\d{2}/)
IsDayHeader(line) ==
  /\ StartsWith(line, DayPrefix)
  /\ Len(line) >= 14
  /\ \A i \in {5, 6, 7, 8, 10, 11, 13, 14} : line[i] \in Digit
  /\ line[9] = "/" /\ line[12] = "/"

\* End of the tracking id of a line that starts with "- [A-Z]+-\d+", or 0.
TrackingIdEnd(line) ==
  IF Len(line) >= 3 /\ line[1] = "-" /\ line[2] = " "
  THEN LET u == RunEnd(line, 3, Upper)
           d == RunEnd(line, u + 2, Digit)
       IN  IF u >= 3 /\ Len(line) > u /\ line[u + 1] = "-" /\ d >= u + 2
           THEN d ELSE 0
  ELSE 0

\* line.match(/^- [A-Z]+-\d+:/)
IsTaskLine(line) ==
  LET d == TrackingIdEnd(line)
  IN  d > 0 /\ Len(line) > d /\ line[d + 1] = ":"

\* line.match(/^- ([A-Z]+-\d+): (.+)$/) is not null.
TaskLineMatches(line) ==
  LET d == TrackingIdEnd(line)
  IN  IsTaskLine(line) /\ Len(line) >= d + 3 /\ line[d + 2] = " "

Null == [type |-> "null"]

IsNull(x) == x.type = "null"

\* The parser's locals before the first line.
ParseInit ==
  [sections |-> <<>>, currentWeek |-> Null, currentDay |-> Null,
   currentTask |-> Null, buffer |-> <<>>, error |-> FALSE]

\* flushBuffer(): the pending lines go to the innermost open node.
flushBuffer(st) ==
  IF st.buffer = <<>> THEN st
  ELSE IF ~IsNull(st.currentTask)
    THEN [st EXCEPT !.currentTask.content = @ \o st.buffer, !.buffer = <<>>]
  ELSE IF ~IsNull(st.currentDay)
    THEN [st EXCEPT !.currentDay.content = @ \o st.buffer, !.buffer = <<>>]
  ELSE IF ~IsNull(st.currentWeek)
    THEN [st EXCEPT !.currentWeek.content = @ \o st.buffer, !.buffer = <<>>]
  ELSE [st EXCEPT !.sections = Append(@, [type |-> "header", lines |-> st.buffer]),
                  !.buffer = <<>>]

\* The week-header branch of the loop.
ParseWeekHeader(st, line) ==
  LET f == flushBuffer(st)
  IN  [f EXCEPT
        !.sections    = IF IsNull(f.currentWeek) THEN @ ELSE Append(@, f.currentWeek),
        !.currentWeek = [type |-> "week", header |-> line,
                         weekNumber |-> FirstNumber(line),
                         content |-> <<>>, days |-> <<>>],
        !.currentDay  = Null,
        !.currentTask = Null]

\* The day-header branch of the loop; currentWeek.days.push throws when a
\* day is open and no week is.
ParseDayHeader(st, line) ==
  LET f   == flushBuffer(st)
      new == [type |-> "day", header |-> line,
              date |-> SubSeq(line, Len(DayPrefix) + 1, Len(line)),
              content |-> <<>>, tasks |-> <<>>]
  IN  IF IsNull(f.currentDay)
      THEN [f EXCEPT !.currentDay = new, !.currentTask = Null]
      ELSE IF IsNull(f.currentWeek)
      THEN [f EXCEPT !.error = TRUE]
      ELSE [f EXCEPT !.currentWeek.days = Append(@, f.currentDay),
                     !.currentDay = new, !.currentTask = Null]

\* The task-line branch of the loop; match[1] throws when the second
\* pattern does not match.
ParseTaskLine(st, line) ==
  LET f == flushBuffer(st)
      d == TrackingIdEnd(line)
  IN  IF ~TaskLineMatches(line)
      THEN [f EXCEPT !.error = TRUE]
      ELSE [f EXCEPT
             !.currentDay.tasks = IF IsNull(f.currentTask) THEN @
                                  ELSE Append(@, f.currentTask),
             !.currentTask = [type |-> "task",
                              trackingId |-> SubSeq(line, 3, d),
                              summary |-> SubSeq(line, d + 3, Len(line)),
                              content |-> <<>>]]

\* A loop body that takes a task line for one wherever it stands, and drops
\* it when no day is open.
ParseLineStrayTaskDropped(st, line) ==
  IF st.error THEN st
  ELSE IF IsWeekHeader(line) THEN ParseWeekHeader(st, line)
  ELSE IF IsDayHeader(line) THEN ParseDayHeader(st, line)
  ELSE IF IsTaskLine(line)
    THEN IF IsNull(st.currentDay) THEN st ELSE ParseTaskLine(st, line)
  ELSE [st EXCEPT !.buffer = Append(@, line)]

\* One iteration of the loop over the lines.
ParseLine(st, line) ==
  IF st.error THEN st
  ELSE IF IsWeekHeader(line) THEN ParseWeekHeader(st, line)
  ELSE IF IsDayHeader(line) THEN ParseDayHeader(st, line)
  ELSE IF ~IsNull(st.currentDay) /\ IsTaskLine(line) THEN ParseTaskLine(st, line)
  ELSE [st EXCEPT !.buffer = Append(@, line)]

\* The loop over lines[1..n].
RECURSIVE ParseLoop(_, _)
ParseLoop(lines, n) ==
  IF n = 0 THEN ParseInit
  ELSE Only({ParseLine(st, lines[n]) : st \in {ParseLoop(lines, n - 1)}})

\* After the loop: flush, then close the open task, day and week.
ParseFinish(st) ==
  IF st.error THEN st
  ELSE
    LET f  == flushBuffer(st)
        s1 == IF IsNull(f.currentTask) THEN f
              ELSE [f EXCEPT !.currentDay.tasks = Append(@, f.currentTask)]
        s2 == IF IsNull(s1.currentDay) THEN s1
              ELSE IF IsNull(s1.currentWeek) THEN [s1 EXCEPT !.error = TRUE]
              ELSE [s1 EXCEPT !.currentWeek.days = Append(@, s1.currentDay)]
    IN  IF s2.error \/ IsNull(s2.currentWeek) THEN s2
        ELSE [s2 EXCEPT !.sections = Append(@, s2.currentWeek)]

\* parseWorklog(content): [error, sections]; error is the TypeError.
parseWorklog(lines) ==
  Only({[error |-> st.error, sections |-> IF st.error THEN <<>> ELSE st.sections] :
          st \in {Only({ParseFinish(loop) :
                          loop \in {Only({ParseLoop(ls, Len(ls)) : ls \in {lines}})}})}})

\* ------------------------------------------------------------------------
\* log_work.cjs: the comparators of the two sorts
\* ------------------------------------------------------------------------
\* A comparator that sorts the weeks in ascending order.
CompareSectionsAscending(a, b) ==
  IF a.type # "week" \/ b.type # "week" THEN 0 ELSE a.weekNumber - b.weekNumber

\* The comparator of sections.sort.
CompareSections(a, b) ==
  IF a.type # "week" \/ b.type # "week" THEN 0 ELSE b.weekNumber - a.weekNumber

\* The comparator of weekSection.days.sort.
CompareDays(a, b) == compareDates(a.date, b.date)

\* comparefn(a, b) of the sort of the sections or of the days of a week.
Compare(comparefn, a, b) ==
  IF comparefn = "sections" THEN CompareSections(a, b) ELSE CompareDays(a, b)

\* ------------------------------------------------------------------------
\* Array.prototype.sort as Node runs it on an array of fewer than 64
\* elements: the leading run is counted (and reversed when it is strictly
\* descending), the other elements are placed by binary insertion.  A
\* comparator result of NaN counts as 0.
\* ------------------------------------------------------------------------
Reverse(s) == [i \in 1..Len(s) |-> s[Len(s) + 1 - i]]

ArraySorted(arr, comparefn) ==
  LET n == Len(arr)
      Order(x, y) == IF Compare(comparefn, x, y) = NaN THEN 0
                     ELSE Compare(comparefn, x, y)
      isDescending == Order(arr[2], arr[1]) < 0
      breaks == {i \in 3..n : IF isDescending
                              THEN Order(arr[i], arr[i - 1]) >= 0
                              ELSE Order(arr[i], arr[i - 1]) < 0}
      runLength == IF breaks = {} THEN n ELSE SetMin(breaks) - 1
      afterRun == IF isDescending
                  THEN Reverse(SubSeq(arr, 1, runLength)) \o SubSeq(arr, runLength + 1, n)
                  ELSE arr
      \* the pivot a[start] goes to the slot a binary search finds (the
      \* bounds left and right are 0-based, as in the engine)
      Insert(a, start) ==
        LET pivot == a[start]
            search[left \in 0..n, right \in 0..n] ==
              IF left < right
              THEN LET mid == left + ((right - left) \div 2)
                   IN  IF Order(pivot, a[mid + 1]) < 0
                       THEN search[left, mid]
                       ELSE search[mid + 1, right]
              ELSE left
            slot == search[0, start - 1]
        IN  SubSeq(a, 1, slot) \o <<pivot>> \o SubSeq(a, slot + 1, start - 1)
              \o SubSeq(a, start + 1, n)
      sorted[k \in 0..n] ==
        IF k <= runLength THEN afterRun
        ELSE Only({Insert(a, k) : a \in {sorted[k - 1]}})
  IN  IF n < 2 THEN arr ELSE sorted[n]

ArraySort(array, comparefn) ==
  Only({ArraySorted(arr, comparefn) : arr \in {array}})

\* ------------------------------------------------------------------------
\* log_work.cjs: logWork, the merge
\* ------------------------------------------------------------------------
\* The first index of a sequence that is in the set S, or 0.
FirstIn(S) == IF S = {} THEN 0 ELSE SetMin(S)

\* sections.find((s) => s.type === 'week' && s.weekNumber === weekNumber)
FindWeekFirst(sections, weekNumber) ==
  FirstIn({i \in 1..Len(sections) : sections[i].type = "week"})

FindWeek(sections, weekNumber) ==
  FirstIn({i \in 1..Len(sections) :
             sections[i].type = "week" /\ sections[i].weekNumber = weekNumber})

\* weekSection.days.find((d) => d.date === dailyHeader)
FindDay(days, dailyHeader) ==
  FirstIn({i \in 1..Len(days) : days[i].date = dailyHeader})

\* daySection.tasks.find((t) => t.trackingId === trackingId)
FindTask(tasks, trackingId) ==
  FirstIn({i \in 1..Len(tasks) : tasks[i].trackingId = trackingId})

\* The boilerplate content of a week section that logWork creates.
NewWeekContent ==
  << <<>>, <<"L", "a", "s", "t", " ", "w", "e", "e", "k", ":">>, <<>>,
     <<"T", "h", "i", "s", " ", "w", "e", "e", "k", ":">>, <<>> >>

\* Find or create week section: the sections after it, sorted when a week
\* was added.
EnsureWeek(sections, weekInfo) ==
  IF FindWeek(sections, weekInfo.weekNumber) # 0
  THEN sections
  ELSE ArraySort(
         Append(sections,
                [type |-> "week",
                 header |-> <<"#", "#", " ">> \o weekInfo.weekHeader,
                 weekNumber |-> weekInfo.weekNumber,
                 content |-> NewWeekContent, days |-> <<>>]),
         "sections")

\* Find or create day section: the days of the week after it, sorted when a
\* day was added.
EnsureDay(days, dailyHeader) ==
  IF FindDay(days, dailyHeader) # 0
  THEN days
  ELSE ArraySort(
         Append(days,
                [type |-> "day", header |-> DayPrefix \o dailyHeader,
                 date |-> dailyHeader, content |-> <<>>, tasks |-> <<>>]),
         "days")

\* Find or create task entry: the tasks of the day after it; the summary of
\* a task found is overwritten.
EnsureTask(tasks, trackingId, summary) ==
  LET i == FindTask(tasks, trackingId)
  IN  IF i = 0
      THEN Append(tasks, [type |-> "task", trackingId |-> trackingId,
                          summary |-> summary, content |-> <<>>])
      ELSE [tasks EXCEPT ![i].summary = summary]

\* `  - ${workItem}`
WorkLine(workItem) == <<" ", " ", "-", " ">> \o workItem

\* No work item is added.
AddWorkItemsNone(content, workItems) == content

\* Add work items: each line is pushed unless the content includes it.
RECURSIVE AddWorkItems(_, _)
AddWorkItems(content, workItems) ==
  IF workItems = <<>> THEN content
  ELSE Only({AddWorkItems(
               IF \E i \in 1..Len(c) : c[i] = workLine THEN c ELSE Append(c, workLine),
               Tail(workItems)) :
             c \in {content}, workLine \in {WorkLine(Head(workItems))}})

\* Lines 218-277: the sections after the merge of one work entry.
\* Lines 255-277: the tasks of the day after the task entry is found or
\* created and the work items are added to it.
MergeTask(tasks, trackingId, summary, workItems) ==
  Only({[t1 EXCEPT ![FindTask(t1, trackingId)].content = AddWorkItems(@, workItems)] :
          t1 \in {EnsureTask(tasks, trackingId, summary)}})

\* Lines 239-277: the days of the week after the day section is found or
\* created and the task is merged into it.
MergeDay(days, dailyHeader, trackingId, summary, workItems) ==
  Only({[d1 EXCEPT ![FindDay(d1, dailyHeader)].tasks =
                     MergeTask(@, trackingId, summary, workItems)] :
          d1 \in {EnsureDay(days, dailyHeader)}})

\* Lines 218-277: the sections after the merge of one work entry.
Merge(sections, weekInfo, dailyHeader, trackingId, summary, workItems) ==
  Only({[s1 EXCEPT ![FindWeek(s1, weekInfo.weekNumber)].days =
                     MergeDay(@, dailyHeader, trackingId, summary, workItems)] :
          s1 \in {EnsureWeek(sections, weekInfo)}})

\* ------------------------------------------------------------------------
\* log_work.cjs: logWork, "Rebuild content"
\* ------------------------------------------------------------------------
\* `- ${task.trackingId}: ${task.summary}`
TaskLine(trackingId, summary) == <<"-", " ">> \o trackingId \o <<":", " ">> \o summary

RECURSIVE RenderTasks(_)
RenderTasks(tasks) ==
  IF tasks = <<>> THEN <<>>
  ELSE << <<>>, TaskLine(Head(tasks).trackingId, Head(tasks).summary) >>
         \o Head(tasks).content \o RenderTasks(Tail(tasks))

RECURSIVE RenderDays(_)
RenderDays(days) ==
  IF days = <<>> THEN <<>>
  ELSE << <<>>, Head(days).header >> \o Head(days).content
         \o RenderTasks(Head(days).tasks) \o RenderDays(Tail(days))

\* The header sections first, then the week sections, each in array order.
RECURSIVE RenderHeaders(_)
RenderHeaders(sections) ==
  IF sections = <<>> THEN <<>>
  ELSE (IF Head(sections).type = "header" THEN Head(sections).lines ELSE <<>>)
         \o RenderHeaders(Tail(sections))

RECURSIVE RenderWeeks(_)
RenderWeeks(sections) ==
  IF sections = <<>> THEN <<>>
  ELSE (IF Head(sections).type = "week"
        THEN << <<>>, Head(sections).header >> \o Head(sections).content
               \o RenderDays(Head(sections).days)
        ELSE <<>>)
         \o RenderWeeks(Tail(sections))

\* output.join('\n') + '\n', as the lines of the new content.
Render(sections) == RenderHeaders(sections) \o RenderWeeks(sections) \o << <<>> >>

\* ------------------------------------------------------------------------
\* The inputs of the model
\* ------------------------------------------------------------------------
\* --date values: 2026-01-14 (week 3), 2026-01-21 (week 4), 2026-01-27 and
\* 2026-01-28 (week 5); in a zone behind UTC each is read as the day before.
Jan(dd) == <<"2", "0", "2", "6", "-", "0", "1", "-">> \o dd

Dates == {Jan(<<"1", "4">>), Jan(<<"2", "1">>), Jan(<<"2", "7">>), Jan(<<"2", "8">>)}

\* A --date value that is no date.
BadDate == <<"b", "a", "d">>

\* new Date().toISOString().slice(0, 10): the clock of the model.
Today == ISODate(Now)

\* --tracking-id values: two issue-tracker ids and a date-based id
\* (YYYYMMDD, what the task workflow generates for a task without one).
IdA == <<"A", "-", "1">>

IdB == <<"B", "-", "2">>

IdDate == <<"2", "0", "2", "6", "0", "1", "2", "8">>

TrackingIds == {IdA, IdB, IdDate}

Summaries == {<<"s">>, <<"t">>}

\* --work values: one item, and three items of which the third repeats the
\* first.
WorkItemLists == {<< <<"a">> >>, << <<"b">>, <<"a">>, <<"b">> >>}

\* The options of a call that passes validation and has a date: every date
\* with every tracking id, and on one or two of the days a second summary
\* and the longer list of work items.
CoreOptions ==
  [date : Dates, trackingId : TrackingIds, summary : {<<"s">>},
   workItems : {<< <<"a">> >>}]

MoreOptions ==
  [date : {Jan(<<"2", "8">>)}, trackingId : {IdA}, summary : {<<"t">>},
   workItems : {<< <<"a">> >>}]
  \cup [date : {Jan(<<"2", "8">>)}, trackingId : {IdA, IdDate}, summary : {<<"s">>},
        workItems : {<< <<"b">>, <<"a">>, <<"b">> >>}]
  \cup [date : {Jan(<<"2", "7">>)}, trackingId : {IdA}, summary : {<<"s">>},
        workItems : {<< <<"b">>, <<"a">>, <<"b">> >>}]

ValidOptions == CoreOptions \cup MoreOptions

BaseOptions ==
  [date |-> Jan(<<"2", "8">>), trackingId |-> IdA, summary |-> <<"s">>,
   workItems |-> << <<"a">> >>]

\* Calls without --date, with a --date that is no date, and with each
\* required field missing (parseArgs leaves null or []; an empty string is
\* as falsy as null).
OtherOptions ==
  {[BaseOptions EXCEPT !.date = <<>>],
   [BaseOptions EXCEPT !.date = BadDate],
   [BaseOptions EXCEPT !.trackingId = <<>>],
   [BaseOptions EXCEPT !.summary = <<>>],
   [BaseOptions EXCEPT !.workItems = <<>>],
   [BaseOptions EXCEPT !.date = BadDate, !.workItems = <<>>]}

Options == ValidOptions \cup OtherOptions

\* Successful logWork calls in one behaviour.
MaxCalls == 3

\* process.argv[2] of get_week_info.cjs: the last four days of December and
\* the first four of January around five turns of the year, a week of
\* January 2026, no argument or an empty one, and strings that are no date.
YearEnds == {2020, 2021, 2024, 2026, 2027}

WeekArgs ==
  {ISODate(DaysFromCivil(y, 12, 31) + k) : y \in YearEnds, k \in -3..4}
  \cup {ISODate(DaysFromCivil(2026, 1, 25) + k) : k \in 0..6}
  \cup {<<>>, BadDate, <<"2", "0", "2", "6", "-", "1", "3", "-", "0", "1">>}

\* The lines of the texts given to parseWorklog.
TitleLine == <<"#", " ", "T">>

WeekLine == <<"#", "#", " ", "W", "e", "e", "k", " ", "5">>

DayLine == <<"#", "#", "#", " ", "2", "0", "2", "6", "/", "0", "1", "/", "2", "8">>

TaskTextLine == <<"-", " ", "A", "-", "1", ":", " ", "s">>

\* A list item with a tracking id and a colon, and no summary after it.
NoSummaryLine == <<"-", " ", "A", "-", "1", ":">>

ItemLine == <<" ", " ", "-", " ", "a">>

TextLines == {TitleLine, WeekLine, DayLine, TaskTextLine, NoSummaryLine, ItemLine, <<>>}

\* Texts of at most this many lines.
MaxLines == 4

Texts == UNION {[1..n -> TextLines] : n \in 1..MaxLines}

\* ------------------------------------------------------------------------
\* State
\* ------------------------------------------------------------------------
VARIABLES
  files,      \* <worklogsPath>/logs/<YYYY-MM>.md: month key -> lines, for the files that exist
  logsDir,    \* whether <worklogsPath>/logs exists
  behind,     \* whether the process runs in a time zone behind UTC
  calls,      \* logWork calls that wrote the file
  last,       \* the last logWork call: its options, the files before it, how it ended,
              \* and whether it repeated the options of a call that had just written
  logged,     \* the work items logged so far: file, day header, tracking id, item
  weekArg,    \* get_week_info.cjs: process.argv[2] (<<>> when there is none)
  weekOut,    \* get_week_info.cjs: whether it has run, and what getWeekInfo gave
  parseArg,   \* the text given to parseWorklog, as its lines
  parseOut,   \* whether parseWorklog has run on it, and what it gave
  userConfig, \* whether ~/.claude/code-diary/config.json exists
  projects,   \* <worklogsRoot>/<project>: the task directories and project.json of each
  lastInit,   \* the last initProject call: its arguments, the file system before it,
              \* how it ended
  taskArg,    \* the input of parseTaskInput, as its lines
  taskOut,    \* whether parseTaskInput has run on it, and the tasks it returned
  commits     \* a run of log_commits.cjs: the commit dates to go, the results so
              \* far, and where the run stands

vars == <<files, logsDir, behind, calls, last, logged,
          weekArg, weekOut, parseArg, parseOut,
          userConfig, projects, lastInit, taskArg, taskOut, commits>>

\* The variables of init_project.cjs and parse_task_input.cjs.
toolVars == <<userConfig, projects, lastInit, taskArg, taskOut>>

\* <worklogsRoot> without a project.
NoProjects == <<>>

NoInit == [outcome |-> "none", projectName |-> "", options |-> <<>>,
           projectsBefore |-> <<>>, logsDirBefore |-> FALSE,
           userConfigBefore |-> FALSE, n |-> 0]

NoTaskOut == [done |-> FALSE, tasks |-> <<>>]

NoCommits == [status |-> "none", options |-> <<>>, byDate |-> <<>>,
              pending |-> <<>>, dates |-> <<>>]

\* init_project.cjs, parse_task_input.cjs and log_commits.cjs are not run.
NotRun ==
  /\ userConfig = FALSE
  /\ projects = NoProjects
  /\ lastInit = NoInit
  /\ taskArg = <<>>
  /\ taskOut = NoTaskOut
  /\ commits = NoCommits

\* get_week_info.cjs and parseWorklog before they run.
NoWeekOut == [done |-> FALSE, info |-> InvalidDate]

NoParseOut == [done |-> FALSE, error |-> FALSE, sections |-> <<>>]

NoCall ==
  [outcome |-> "none", options |-> BaseOptions, dateStr |-> <<>>,
   worklogFile |-> <<>>, dailyHeader |-> <<>>, weekNumber |-> 0,
   filesBefore |-> <<>>, logsDirBefore |-> FALSE, repeated |-> FALSE]

Init ==
  /\ files = <<>>
  /\ logsDir = FALSE
  /\ behind \in BOOLEAN
  /\ calls = 0
  /\ last = NoCall
  /\ logged = {}
  /\ weekArg = <<>>
  /\ weekOut = NoWeekOut
  /\ parseArg = <<>>
  /\ parseOut = NoParseOut
  /\ NotRun

\* The content logWork starts from: the file, or the title line of a new one.
\* `# ${weekInfo.month.replace('-', '/')} Contribution log\n`
NewFileContent(month) ==
  LET i == SetMin({k \in 1..Len(month) : month[k] = "-"})
  IN  << <<"#", " ">> \o [month EXCEPT ![i] = "/"]
           \o <<" ", "C", "o", "n", "t", "r", "i", "b", "u", "t", "i", "o", "n",
                " ", "l", "o", "g">>,
         <<>> >>

ReadOrCreate(fs, month) ==
  IF month \in DOMAIN fs THEN fs[month] ELSE NewFileContent(month)

\* A write that does not reach the file.
WriteFileNotDone(fs, month, lines) == fs

\* fs.writeFileSync(worklogFile, newContent)
WriteFile(fs, month, lines) ==
  [k \in DOMAIN fs \cup {month} |-> IF k = month THEN lines ELSE fs[k]]

\* The (file, day, tracking id, item) entries a call logs.
Entries(month, dailyHeader, opt) ==
  {[file |-> month, day |-> dailyHeader, trackingId |-> opt.trackingId,
    item |-> opt.workItems[i]] : i \in 1..Len(opt.workItems)}

\* A validation that does not look at the work items.
MissingFieldsNoWorkItems(opt) == opt.trackingId = <<>> \/ opt.summary = <<>>

\* The validation of the required fields.
MissingFields(opt) ==
  opt.trackingId = <<>> \/ opt.summary = <<>> \/ Len(opt.workItems) = 0

\* The outcomes of a call that wrote the file: it returned, or formatWorklog
\* ended the process.
Written == {"ok", "exit1"}

\* logWork(options), with formatWorklog: prettier either leaves the content
\* as written or fails, and then formatWorklog ends the process with exit
\* code 1.
LogWork(opt) ==
  LET dateStr == IF opt.date = <<>> THEN Today ELSE opt.date
      call    == [NoCall EXCEPT !.options = opt, !.filesBefore = files,
                                !.logsDirBefore = logsDir,
                                !.repeated = (last.outcome \in Written
                                              /\ last.options = opt)]
  IN
  /\ calls < MaxCalls
  /\ IF MissingFields(opt)
     THEN /\ last' = [call EXCEPT !.outcome = "MissingFields"]
          /\ UNCHANGED <<files, logsDir, calls, logged>>
     ELSE \E weekInfo \in {getWeekInfo(dateStr, behind)} :
       IF weekInfo.error
       THEN /\ last' = [call EXCEPT !.outcome = "InvalidDate", !.dateStr = dateStr]
            /\ UNCHANGED <<files, logsDir, calls, logged>>
       ELSE \E dailyHeader \in {formatDateHeader(dateStr, behind)} :
            \E content \in {ReadOrCreate(files, weekInfo.month)} :
            \E parsed \in {parseWorklog(content)} :
         LET reached == [call EXCEPT !.dateStr = dateStr,
                                     !.worklogFile = weekInfo.month,
                                     !.dailyHeader = dailyHeader,
                                     !.weekNumber = weekInfo.weekNumber]
         IN  IF parsed.error
             THEN /\ last' = [reached EXCEPT !.outcome = "TypeError"]
                  /\ logsDir' = TRUE
                  /\ UNCHANGED <<files, calls, logged>>
             ELSE \E sections \in {Merge(parsed.sections, weekInfo, dailyHeader,
                                          opt.trackingId, opt.summary, opt.workItems)} :
                  \E newContent \in {Render(sections)} :
                    /\ files' = WriteFile(files, weekInfo.month, newContent)
                    /\ logsDir' = TRUE
                    /\ calls' = calls + 1
                    /\ \E prettierFails \in BOOLEAN :
                         last' = [reached EXCEPT
                                    !.outcome = IF prettierFails THEN "exit1" ELSE "ok"]
                    /\ logged' = logged \cup Entries(weekInfo.month, dailyHeader, opt)
  /\ UNCHANGED <<behind, weekArg, weekOut, parseArg, parseOut, toolVars>>

\* Main of log_work.cjs, by the way logWork ended: a result is printed as a
\* JSON success payload; an Error thrown by logWork is caught and printed
\* as a JSON error payload before process.exit(1); when formatWorklog has
\* ended the process, the catch block never runs and standard error holds
\* the text of console.error only.
MainResult(outcome) ==
  IF outcome = "ok"
  THEN [exitCode |-> 0, stdout |-> "JSON success", stderr |-> "none"]
  ELSE IF outcome = "exit1"
  THEN [exitCode |-> 1, stdout |-> "none", stderr |-> "text"]
  ELSE [exitCode |-> 1, stdout |-> "none", stderr |-> "JSON error"]

Next == \E opt \in Options : LogWork(opt) /\ UNCHANGED commits

Spec == Init /\ [][Next]_vars

\* ------------------------------------------------------------------------
\* log_work.cjs run once on a worklog file that exists
\* ------------------------------------------------------------------------
\* A day header with text after the date.
DayLineNoted == DayLine \o <<" ", "W", "e", "d">>

\* The lines of a worklog file of January 2026 as an editor may have left
\* it, after the title line.
EditedLines == {WeekLine, DayLine, DayLineNoted, TaskTextLine, NoSummaryLine, <<>>}

\* Lines after the title line, at most.
MaxEdited == 3

\* The file: the title line, the edited lines and the final newline.
ExistingTexts ==
  {<<NewFileContent(MonthKey(Now, FALSE))[1]>> \o body \o << <<>> >> :
     body \in UNION {[1..n -> EditedLines] : n \in 0..MaxEdited}}

\* The calls: for 28 and 29 January 2026, and with a date that is none.
ExistingOptions ==
  {BaseOptions, [BaseOptions EXCEPT !.date = Jan(<<"2", "9">>)],
   [BaseOptions EXCEPT !.date = BadDate]}

InitExisting ==
  /\ files \in {[m \in {MonthKey(Now, FALSE)} |-> text] : text \in ExistingTexts}
  /\ logsDir = TRUE
  /\ behind \in BOOLEAN
  /\ calls = 0
  /\ last = NoCall
  /\ logged = {}
  /\ weekArg = <<>>
  /\ weekOut = NoWeekOut
  /\ parseArg = <<>>
  /\ parseOut = NoParseOut
  /\ NotRun

\* One run of log_work.cjs.
NextExisting ==
  \E opt \in ExistingOptions :
    last.outcome = "none" /\ LogWork(opt) /\ UNCHANGED commits

SpecExisting == InitExisting /\ [][NextExisting]_vars

\* ------------------------------------------------------------------------
\* log_work.cjs run for days around the turn of a year
\* ------------------------------------------------------------------------
\* --date values: 2025-12-22 (ISO week 52), 2025-12-29 and 2025-12-31 (week
\* 1 of 2026), 2026-01-01 (week 1), 2027-01-01 (week 53 of 2026) and
\* 2027-01-04 (week 1 of 2027).
YearEndDates ==
  {ISODate(DaysFromCivil(2025, 12, 22)), ISODate(DaysFromCivil(2025, 12, 29)),
   ISODate(DaysFromCivil(2025, 12, 31)), ISODate(DaysFromCivil(2026, 1, 1)),
   ISODate(DaysFromCivil(2027, 1, 1)), ISODate(DaysFromCivil(2027, 1, 4))}

YearEndOptions ==
  [date : YearEndDates, trackingId : {IdA}, summary : {<<"s">>},
   workItems : {<< <<"a">> >>}]

NextYearEnd == \E opt \in YearEndOptions : LogWork(opt) /\ UNCHANGED commits

SpecYearEnd == Init /\ [][NextYearEnd]_vars

\* ------------------------------------------------------------------------
\* get_week_info.cjs run on one argument
\* ------------------------------------------------------------------------
InitWeek ==
  /\ files = <<>>
  /\ logsDir = FALSE
  /\ behind \in BOOLEAN
  /\ calls = 0
  /\ last = NoCall
  /\ logged = {}
  /\ weekArg \in WeekArgs
  /\ weekOut = NoWeekOut
  /\ parseArg = <<>>
  /\ parseOut = NoParseOut
  /\ NotRun

\* Main: getWeekInfo(process.argv[2]); the info is printed, or the error
\* and exit code 1.
GetWeekInfo ==
  /\ ~weekOut.done
  /\ weekOut' = [done |-> TRUE, info |-> getWeekInfo(weekArg, behind)]
  /\ UNCHANGED <<files, logsDir, behind, calls, last, logged,
                 weekArg, parseArg, parseOut, toolVars, commits>>

NextWeek == GetWeekInfo

SpecWeek == InitWeek /\ [][NextWeek]_vars

\* ------------------------------------------------------------------------
\* parseWorklog run on one text
\* ------------------------------------------------------------------------
InitParse ==
  /\ files = <<>>
  /\ logsDir = FALSE
  /\ behind = FALSE
  /\ calls = 0
  /\ last = NoCall
  /\ logged = {}
  /\ weekArg = <<>>
  /\ weekOut = NoWeekOut
  /\ parseArg \in Texts
  /\ parseOut = NoParseOut
  /\ NotRun

\* parseWorklog(content) with content the lines of parseArg joined by '\n'.
ParseWorklog ==
  /\ ~parseOut.done
  /\ \E parsed \in {parseWorklog(parseArg)} :
       parseOut' = [done |-> TRUE, error |-> parsed.error,
                    sections |-> parsed.sections]
  /\ UNCHANGED <<files, logsDir, behind, calls, last, logged,
                 weekArg, weekOut, parseArg, toolVars, commits>>

NextParse == ParseWorklog

SpecParse == InitParse /\ [][NextParse]_vars

\* ------------------------------------------------------------------------
\* init_project.cjs: initProject(projectName, options)
\* ------------------------------------------------------------------------
ProjectNames == {"alpha", "beta"}

TaskDirs == {"new", "working", "archived"}

NoTracker == <<>>

\* The options of initProject; "" and <<>> are the missing ones.
NoInitOptions ==
  [issueTrackerType |-> "", issueTrackerUrl |-> "", issueTrackerPrefix |-> "",
   issueTracker |-> NoTracker, mainBranch |-> "", featureBranchRule |-> ""]

InitOptions ==
  { NoInitOptions,
    [NoInitOptions EXCEPT !.issueTrackerType = "jira",
                          !.issueTrackerUrl = "https://jira.example.com",
                          !.issueTrackerPrefix = "PROJ"],
    [NoInitOptions EXCEPT !.issueTrackerType = "github", !.mainBranch = "develop"],
    [NoInitOptions EXCEPT !.issueTracker = <<[type |-> "linear", baseUrl |-> "",
                                             projectPrefix |-> ""]>>,
                          !.featureBranchRule = "fix/{filename}"] }

\* config.issueTracker: <<>> when the key is not set, else the one object;
\* baseUrl and projectPrefix are "" when the key is not set.
IssueTracker(options) ==
  IF options.issueTrackerType # ""
    THEN <<[type |-> options.issueTrackerType,
            baseUrl |-> options.issueTrackerUrl,
            projectPrefix |-> options.issueTrackerPrefix]>>
    ELSE options.issueTracker

\* The configuration initProject writes to project.json.
BuildConfig(projectName, options) ==
  [name |-> projectName,
   issueTracker |-> IssueTracker(options),
   repository |->
     [mainBranch |-> IF options.mainBranch # "" THEN options.mainBranch ELSE "main",
      featureBranchRule |-> IF options.featureBranchRule # ""
                              THEN options.featureBranchRule
                              ELSE "feat/{filename}"]]

\* A project directory: the directories under tasks/, and project.json
\* (<<>> when there is no such file, else the one configuration in it).
EmptyProject == [tasks |-> {}, config |-> <<>>]

ProjectExistsNever(fs, projectName) == FALSE

\* fs.existsSync(configPath)
ProjectExists(fs, projectName) ==
  /\ projectName \in DOMAIN fs
  /\ fs[projectName].config # <<>>

\* The three mkdirSync calls and the writeFileSync of project.json.
CreateProject(fs, projectName, options) ==
  [n \in DOMAIN fs \cup {projectName} |->
     IF n = projectName
       THEN [tasks |-> (IF n \in DOMAIN fs THEN fs[n].tasks ELSE {}) \cup TaskDirs,
             config |-> <<BuildConfig(projectName, options)>>]
       ELSE fs[n]]

MaxInits == 2

\* config.cjs loadConfig(): whether ~/.claude/code-diary/config.json exists
\* after it. A missing file is written with the defaults, an existing one
\* is read and left alone.
loadConfig(exists) == IF ~exists THEN TRUE ELSE exists

\* initProject(projectName, options). getWorklogsPath() loads the
\* configuration of the tool, which writes ~/.claude/code-diary/config.json
\* with the defaults when that file is missing; this comes before the test
\* for an existing project.json.
InitProject(projectName, options) ==
  /\ lastInit.n < MaxInits
  /\ userConfig' = loadConfig(userConfig)
  /\ IF ProjectExists(projects, projectName)
       THEN /\ UNCHANGED <<projects, logsDir>>
            /\ lastInit' = [outcome |-> "error", projectName |-> projectName,
                            options |-> options, projectsBefore |-> projects,
                            logsDirBefore |-> logsDir,
                            userConfigBefore |-> userConfig, n |-> lastInit.n + 1]
       ELSE /\ projects' = CreateProject(projects, projectName, options)
            /\ logsDir' = TRUE
            /\ lastInit' = [outcome |-> "ok", projectName |-> projectName,
                            options |-> options, projectsBefore |-> projects,
                            logsDirBefore |-> logsDir,
                            userConfigBefore |-> userConfig, n |-> lastInit.n + 1]
  /\ UNCHANGED <<files, behind, calls, last, logged, weekArg, weekOut,
                 parseArg, parseOut, taskArg, taskOut, commits>>

\* A project directory before the first call: with a project.json from an
\* earlier run, or left without one.
OldProjects(projectName) ==
  { EmptyProject,
    [tasks |-> {"new"}, config |-> <<>>],
    [tasks |-> TaskDirs, config |-> <<BuildConfig(projectName, NoInitOptions)>>] }

InitProjects ==
  /\ files = <<>>
  /\ logsDir \in BOOLEAN
  /\ behind = FALSE
  /\ calls = 0
  /\ last = NoCall
  /\ logged = {}
  /\ weekArg = <<>>
  /\ weekOut = NoWeekOut
  /\ parseArg = <<>>
  /\ parseOut = NoParseOut
  /\ userConfig \in BOOLEAN
  /\ \E present \in SUBSET ProjectNames :
       \E old \in [present -> {1, 2, 3}] :
         projects = [n \in present |->
                       CHOOSE p \in OldProjects(n) :
                         Cardinality(p.tasks) = IF old[n] = 1 THEN 0
                                                ELSE IF old[n] = 2 THEN 1 ELSE 3]
  /\ lastInit = NoInit
  /\ taskArg = <<>>
  /\ taskOut = NoTaskOut
  /\ commits = NoCommits

NextInit == \E projectName \in ProjectNames, options \in InitOptions :
              InitProject(projectName, options)

SpecInit == InitProjects /\ [][NextInit]_vars

\* ------------------------------------------------------------------------
\* parse_task_input.cjs: parseTaskInput(input)
\* ------------------------------------------------------------------------
Space == {" "}

\* line.trim()
Trim(line) ==
  IF \A k \in 1..Len(line) : line[k] \in Space THEN <<>>
  ELSE SubSeq(line, SetMin({k \in 1..Len(line) : line[k] \notin Space}),
                    SetMax({k \in 1..Len(line) : line[k] \notin Space}))

\* input.trim().split('\n').map(line => line.trim()).filter(Boolean), on the
\* lines of the input: the trimmed lines that are not empty.
TrimmedLines(input) ==
  LET NotEmpty(line) == line # <<>>
  IN  SelectSeq([i \in 1..Len(input) |-> Trim(input[i])], NotEmpty)

\* Last index of the match of /^[A-Z]+-\d+/ at the start of the line, or 0.
JiraIdEnd(line) ==
  LET u == RunEnd(line, 1, Upper)
      d == RunEnd(line, u + 2, Digit)
  IN  IF u >= 1 /\ Len(line) > u /\ line[u + 1] = "-" /\ d >= u + 2
      THEN d ELSE 0

\* line.match(/^([A-Z]+-\d+)$/)
JiraIdMatch(line) == JiraIdEnd(line) # 0 /\ JiraIdEnd(line) = Len(line)

\* line.match(/^([A-Z]+-\d+)\s+(.+)$/)
OneLineMatch(line) ==
  /\ JiraIdEnd(line) # 0
  /\ JiraIdEnd(line) + 1 < Len(line)
  /\ line[JiraIdEnd(line) + 1] \in Space

\* oneLineMatch[2]: what follows the white space after the id (the line is
\* trimmed, so it ends with a character that is no white space).
OneLineSummary(line) ==
  SubSeq(line, RunEnd(line, JiraIdEnd(line) + 1, Space) + 1, Len(line))

\* A task of the result; <<>> is null. currentTask is <<>> (null) or the one
\* task in <<task>>.
Task(trackingId, summary) == [trackingId |-> trackingId, summary |-> summary]

\* One turn of the loop over the lines: the tasks and currentTask after it.
TaskStep(line, tasks, currentTask) ==
  IF JiraIdMatch(line)
    THEN [tasks |-> tasks \o currentTask,
          currentTask |-> <<Task(line, <<>>)>>]
  ELSE IF OneLineMatch(line)
    THEN [tasks |-> (tasks \o currentTask)
                      \o <<Task(SubSeq(line, 1, JiraIdEnd(line)), OneLineSummary(line))>>,
          currentTask |-> <<>>]
  ELSE IF currentTask # <<>> /\ currentTask[1].summary = <<>>
    THEN [tasks |-> Append(tasks, Task(currentTask[1].trackingId, line)),
          currentTask |-> <<>>]
  ELSE [tasks |-> Append(tasks, Task(<<>>, line)),
        currentTask |-> currentTask]

RECURSIVE TaskLoop(_, _)
TaskLoop(lines, n) ==
  IF n = 0 THEN [tasks |-> <<>>, currentTask |-> <<>>]
  ELSE Only({TaskStep(lines[n], before.tasks, before.currentTask) :
               before \in {TaskLoop(lines, n - 1)}})

\* parseTaskInput(input): after the loop, a pending task is added only if
\* it has a summary (otherwise a warning is printed).
parseTaskInput(input) ==
  Only({ IF after.currentTask # <<>> /\ after.currentTask[1].summary # <<>>
           THEN after.tasks \o after.currentTask
           ELSE after.tasks :
         after \in {TaskLoop(lines, Len(lines)) : lines \in {TrimmedLines(input)}} })

\* The lines of the input: ids on a line of their own, one-line entries,
\* summaries, and empty and blank lines.
TaskInputLines ==
  { <<"A", "-", "1">>, <<"B", "-", "2", "2">>, <<" ", "A", "-", "1", " ">>,
    <<"A", "-", "1", " ", "s">>, <<"B", "-", "2", " ", " ", "s", " ", "t">>,
    <<"t">>, <<"a", "-", "1">>, <<"A", "-", "x">>, <<>>, <<" ">> }

MaxTaskLines == 3

TaskInputs == UNION {[1..n -> TaskInputLines] : n \in 0..MaxTaskLines}

InitTask ==
  /\ files = <<>>
  /\ logsDir = FALSE
  /\ behind = FALSE
  /\ calls = 0
  /\ last = NoCall
  /\ logged = {}
  /\ weekArg = <<>>
  /\ weekOut = NoWeekOut
  /\ parseArg = <<>>
  /\ parseOut = NoParseOut
  /\ userConfig = FALSE
  /\ projects = NoProjects
  /\ lastInit = NoInit
  /\ taskArg \in TaskInputs
  /\ taskOut = NoTaskOut
  /\ commits = NoCommits

ParseTaskInput ==
  /\ ~taskOut.done
  /\ taskOut' = [done |-> TRUE, tasks |-> parseTaskInput(taskArg)]
  /\ UNCHANGED <<files, logsDir, behind, calls, last, logged, weekArg, weekOut,
                 parseArg, parseOut, userConfig, projects, lastInit, taskArg,
                 commits>>

NextTask == ParseTaskInput

SpecTask == InitTask /\ [][NextTask]_vars

\* ------------------------------------------------------------------------
\* log_commits.cjs: logCommits(options)
\* ------------------------------------------------------------------------
LowerChars == <<"a", "b", "c", "d", "e", "f", "g", "h", "i", "j", "k", "l", "m",
                "n", "o", "p", "q", "r", "s", "t", "u", "v", "w", "x", "y", "z">>

UpperChars == <<"A", "B", "C", "D", "E", "F", "G", "H", "I", "J", "K", "L", "M",
                "N", "O", "P", "Q", "R", "S", "T", "U", "V", "W", "X", "Y", "Z">>

ToUpperCase(c) ==
  IF \E k \in 1..26 : LowerChars[k] = c
  THEN UpperChars[CHOOSE k \in 1..26 : LowerChars[k] = c] ELSE c

ToLowerCase(c) ==
  IF \E k \in 1..26 : UpperChars[k] = c
  THEN LowerChars[CHOOSE k \in 1..26 : UpperChars[k] = c] ELSE c

\* The prefixes of /^(feat|fix|chore|docs|style|refactor|test|perf):\s*/i
CommitPrefixes ==
  { <<"f", "e", "a", "t">>, <<"f", "i", "x">>, <<"c", "h", "o", "r", "e">>,
    <<"d", "o", "c", "s">>, <<"s", "t", "y", "l", "e">>,
    <<"r", "e", "f", "a", "c", "t", "o", "r">>, <<"t", "e", "s", "t">>,
    <<"p", "e", "r", "f">> }

\* message.replace(/^(feat|fix|...):\s*/i, '')
StripPrefix(message) ==
  LET lower == [k \in 1..Len(message) |-> ToLowerCase(message[k])]
      ps    == {p \in CommitPrefixes : StartsWith(lower, p \o <<":">>)}
  IN  IF ps = {} THEN message
      ELSE LET p == CHOOSE q \in ps : TRUE
           IN  SubSeq(message, RunEnd(message, Len(p) + 2, Space) + 1, Len(message))

\* The work item of a commit message: the prefix removed, trimmed, the
\* first letter in upper case.
Cleaned(message) ==
  LET cleaned == Trim(StripPrefix(message))
  IN  IF cleaned = <<>> THEN <<>>
      ELSE <<ToUpperCase(cleaned[1])>> \o Tail(cleaned)

\* summarizeCommits(commits)
summarizeCommits(messages) == [k \in 1..Len(messages) |-> Cleaned(messages[k])]

\* The commit dates (git log --date=short): two days of January 2026 and
\* one of February.
CommitDates ==
  {Jan(<<"2", "7">>), Jan(<<"2", "8">>), ISODate(DaysFromCivil(2026, 2, 2))}

\* The messages of the commits of a day.
CommitMessages ==
  { << <<"f", "i", "x", ":", " ", "a">> >>,
    << <<"b">>, <<"F", "e", "a", "t", ":", "a">> >> }

\* Commit dates in one run, at most.
MaxCommitDates == 2

\* getCommitsByDate(options): the entries of commitsByDate in the order of
\* Object.entries, each date once.
CommitsByDate ==
  {log \in UNION {[1..n -> [date : CommitDates, commits : CommitMessages]] :
                    n \in 0..MaxCommitDates} :
     \A i, j \in 1..Len(log) : i # j => log[i].date # log[j].date}

\* The options of logCommits.
CommitOptions ==
  {[trackingId |-> IdA, summary |-> <<"s">>],
   [trackingId |-> <<>>, summary |-> <<"s">>],
   [trackingId |-> IdA, summary |-> <<>>]}

\* logCommits up to its loop: the required fields are tested, the commits
\* are read from git, and with no commit the result has no date.
LogCommitsStart(options, log, gitFails) ==
  /\ commits.status = "none"
  /\ commits' =
       IF options.trackingId = <<>> \/ options.summary = <<>>
         THEN [commits EXCEPT !.status = "threw", !.options = options]
       ELSE IF gitFails
         THEN [commits EXCEPT !.status = "threw", !.options = options]
       ELSE [status |-> IF log = <<>> THEN "returned" ELSE "running",
             options |-> options, byDate |-> log, pending |-> log, dates |-> <<>>]
  /\ UNCHANGED <<files, logsDir, behind, calls, last, logged, weekArg, weekOut,
                 parseArg, parseOut, toolVars>>

\* results.push of an iteration: the counts of a call that returned, or
\* the message of the Error it threw.
DateResult(entry, outcome) ==
  IF outcome = "ok"
  THEN [date |-> entry.date, commitCount |-> Len(entry.commits),
        workItems |-> Len(summarizeCommits(entry.commits)), error |-> "none"]
  ELSE [date |-> entry.date, commitCount |-> 0, workItems |-> 0, error |-> outcome]

\* What an iteration leaves of the run: when formatWorklog has ended the
\* process inside logWork, nothing runs after it; otherwise the result of
\* the date is pushed, and after the last date logCommits returns.
AfterDate(run, outcome) ==
  IF outcome = "exit1"
  THEN [run EXCEPT !.status = "exited"]
  ELSE [run EXCEPT !.status = IF Len(run.pending) = 1 THEN "returned" ELSE "running",
                   !.pending = Tail(run.pending),
                   !.dates = Append(run.dates, DateResult(Head(run.pending), outcome))]

\* One iteration of the loop of logCommits: logWork for the next date.
LogCommitsDate ==
  /\ commits.status = "running"
  /\ LogWork([date |-> Head(commits.pending).date,
              trackingId |-> commits.options.trackingId,
              summary |-> commits.options.summary,
              workItems |-> summarizeCommits(Head(commits.pending).commits)])
  /\ commits' = AfterDate(commits, last'.outcome)

\* The worklog file of January 2026 before the run: none, or one whose day
\* header stands before any week header.
CommitFiles ==
  {<<>>,
   [m \in {MonthKey(Now, FALSE)} |->
      <<NewFileContent(MonthKey(Now, FALSE))[1], DayLine, <<>> >>]}

InitCommits ==
  /\ files \in CommitFiles
  /\ logsDir = (files # <<>>)
  /\ behind = FALSE
  /\ calls = 0
  /\ last = NoCall
  /\ logged = {}
  /\ weekArg = <<>>
  /\ weekOut = NoWeekOut
  /\ parseArg = <<>>
  /\ parseOut = NoParseOut
  /\ NotRun

NextCommits ==
  \/ \E options \in CommitOptions, log \in CommitsByDate, gitFails \in BOOLEAN :
       LogCommitsStart(options, log, gitFails)
  \/ LogCommitsDate

SpecCommits == InitCommits /\ [][NextCommits]_vars

\* ------------------------------------------------------------------------
\* Reading a worklog text: the sections as the lines show them
\* ------------------------------------------------------------------------
IsHeaderLine(line) == IsWeekHeader(line) \/ IsDayHeader(line)

\* A first-level list item.
IsBullet(line) == StartsWith(line, <<"-", " ">>)

\* The first-level list item of a tracking id: `- <trackingId>: ...`
IsTaskLineOf(line, trackingId) ==
  StartsWith(line, <<"-", " ">> \o trackingId \o <<":", " ">>)

\* The lines at which the day section of a date starts.
DayStarts(lines, dailyHeader) ==
  {h \in 1..Len(lines) : lines[h] = DayPrefix \o dailyHeader}

\* The lines of the section whose header is line h: up to the next header.
SectionBody(lines, h) ==
  {i \in (h + 1)..Len(lines) : \A m \in (h + 1)..i : ~IsHeaderLine(lines[m])}

\* The first header line after line h, or Len(lines) + 1.
NextHeader(lines, h) == SetMax(SectionBody(lines, h) \cup {h}) + 1

\* The lines under the list item at line j: up to the next first-level
\* item or header.
ItemBody(lines, j) ==
  {k \in (j + 1)..Len(lines) :
     \A m \in (j + 1)..k : ~IsHeaderLine(lines[m]) /\ ~IsBullet(lines[m])}

\* The elements of seq at the indices in S, in order.
Pick(seq, S) ==
  LET RECURSIVE Upto(_)
      Upto(n) == IF n = 0 THEN <<>>
                 ELSE IF n \in S THEN Append(Upto(n - 1), seq[n]) ELSE Upto(n - 1)
  IN  Upto(Len(seq))

WeekNumbers(lines) ==
  LET ws == SelectSeq(lines, IsWeekHeader)
  IN  [i \in 1..Len(ws) |-> FirstNumber(ws[i])]

\* The day number of a day header line.
DayNumber(line) == DateParse(SlashToDash(SubSeq(line, 5, 14)))

\* ------------------------------------------------------------------------
\* C1
\* ------------------------------------------------------------------------
\* The file shows the work item under the task entry of the tracking id in
\* the day section of the date.
HasEntry(lines, dailyHeader, trackingId, item) ==
  \E h \in DayStarts(lines, dailyHeader) :
    \E j \in SectionBody(lines, h) :
      /\ IsTaskLineOf(lines[j], trackingId)
      /\ \E k \in ItemBody(lines, j) : lines[k] = WorkLine(item)

\* C1: every work item logged by a successful call is still in its file,
\* under the task entry of its tracking id in the day section of its date.
C1_NothingRemoved ==
  \A e \in logged :
    /\ e.file \in DOMAIN files
    /\ HasEntry(files[e.file], e.day, e.trackingId, e.item)

\* ------------------------------------------------------------------------
\* C2
\* ------------------------------------------------------------------------
\* The day header lines of a text that follow a week header, in text order.
TextDayHeaders(lines) ==
  Pick(lines, {i \in 1..Len(lines) :
                 /\ IsDayHeader(lines[i])
                 /\ \E w \in 1..(i - 1) : IsWeekHeader(lines[w])})

\* The task lines of a text that follow a day header of the same week, in
\* text order.
TextTaskLines(lines) ==
  Pick(lines, {i \in 1..Len(lines) :
                 /\ TaskLineMatches(lines[i])
                 /\ \E d \in 1..(i - 1) :
                      /\ IsDayHeader(lines[d])
                      /\ \A m \in d..i : ~IsWeekHeader(lines[m])})

RECURSIVE Flatten(_)
Flatten(seqs) == IF seqs = <<>> THEN <<>> ELSE Head(seqs) \o Flatten(Tail(seqs))

\* The days of the parsed sections, week by week.
ParsedDays(sections) ==
  Flatten([i \in 1..Len(sections) |->
             IF sections[i].type = "week" THEN sections[i].days ELSE <<>>])

ParsedDayHeaders(sections) ==
  LET days == ParsedDays(sections)
  IN  [i \in 1..Len(days) |-> days[i].header]

ParsedTaskLines(sections) ==
  LET days == ParsedDays(sections)
  IN  Flatten([i \in 1..Len(days) |->
                 [j \in 1..Len(days[i].tasks) |->
                    TaskLine(days[i].tasks[j].trackingId, days[i].tasks[j].summary)]])

\* C2: what parseWorklog returns for a worklog file holds every day header
\* that follows a week header and every task line that follows a day
\* header, in text order.
C2_ParseKeepsDaysAndTasks ==
  \A f \in DOMAIN files :
    LET parsed == parseWorklog(files[f])
    IN  ~parsed.error =>
          /\ ParsedDayHeaders(parsed.sections) = TextDayHeaders(files[f])
          /\ ParsedTaskLines(parsed.sections) = TextTaskLines(files[f])

\* ------------------------------------------------------------------------
\* C3
\* ------------------------------------------------------------------------
RECURSIVE IsSubsequence(_, _)
IsSubsequence(a, b) ==
  IF a = <<>> THEN TRUE
  ELSE IF b = <<>> THEN FALSE
  ELSE IF Head(a) = Head(b) THEN IsSubsequence(Tail(a), Tail(b))
  ELSE IsSubsequence(a, Tail(b))

\* The lines of a text other than the task lines of a tracking id in the
\* day section of a date.
OtherLines(lines, dailyHeader, trackingId) ==
  Pick(lines, {i \in 1..Len(lines) :
                 ~(/\ IsTaskLineOf(lines[i], trackingId)
                   /\ \E h \in DayStarts(lines, dailyHeader) :
                        i \in SectionBody(lines, h))})

\* The lines a call may add: blank lines, the header and boilerplate of its
\* week, the header of its day, its task line and its work-item lines.
AddedLines(call) ==
  {<<>>, <<"#", "#", " ">> \o WeekHeaderText(call.weekNumber),
   DayPrefix \o call.dailyHeader,
   TaskLine(call.options.trackingId, call.options.summary)}
  \cup {NewWeekContent[i] : i \in 1..Len(NewWeekContent)}
  \cup {WorkLine(call.options.workItems[i]) : i \in 1..Len(call.options.workItems)}

\* C3: a call that wrote an existing file kept every line of it other than
\* the task line of its own task entry, in the same order, added only lines
\* of its week, day and task, and left the other files alone.
C3_Frame ==
  (last.outcome \in Written /\ last.worklogFile \in DOMAIN last.filesBefore) =>
    LET before == last.filesBefore[last.worklogFile]
        after  == files[last.worklogFile]
    IN  /\ IsSubsequence(
             OtherLines(before, last.dailyHeader, last.options.trackingId), after)
        /\ \A i \in 1..Len(after) :
             \/ after[i] \in AddedLines(last)
             \/ \E j \in 1..Len(before) : before[j] = after[i]
        /\ \A f \in DOMAIN last.filesBefore :
             f # last.worklogFile => files[f] = last.filesBefore[f]

\* ------------------------------------------------------------------------
\* C4
\* ------------------------------------------------------------------------
\* How many lines under the task lines of a tracking id, in the day section
\* of a date, are the line of a work item.
ItemCount(lines, dailyHeader, trackingId, item) ==
  Cardinality(
    {k \in 1..Len(lines) :
       /\ lines[k] = WorkLine(item)
       /\ \E h \in DayStarts(lines, dailyHeader) :
            \E j \in SectionBody(lines, h) :
              IsTaskLineOf(lines[j], trackingId) /\ k \in ItemBody(lines, j)})

\* C4: after a call that repeats the options of the call before it, the
\* file lists each of its work items exactly once for its tracking id on
\* its day.
C4_TwiceListsOnce ==
  (last.outcome \in Written /\ last.repeated) =>
    \A i \in 1..Len(last.options.workItems) :
      ItemCount(files[last.worklogFile], last.dailyHeader,
                last.options.trackingId, last.options.workItems[i]) = 1

\* ------------------------------------------------------------------------
\* C5
\* ------------------------------------------------------------------------
\* C5: no day section of a worklog file has two task lines of one tracking
\* id.
C5_OneEntryPerDay ==
  \A f \in DOMAIN files :
    LET lines == files[f]
    IN  \A h \in 1..Len(lines) :
          IsDayHeader(lines[h]) =>
            \A id \in TrackingIds :
              Cardinality({j \in SectionBody(lines, h) :
                             IsTaskLineOf(lines[j], id)}) <= 1

\* ------------------------------------------------------------------------
\* C6
\* ------------------------------------------------------------------------
\* The first-level list items of the day section of a date, in text order.
DayBullets(lines, dailyHeader) ==
  Pick(lines, {i \in 1..Len(lines) :
                 /\ IsBullet(lines[i])
                 /\ \E h \in DayStarts(lines, dailyHeader) :
                      i \in SectionBody(lines, h)})

\* C6: a call for a tracking id that had no task line in an existing day
\* section leaves the task lines of that day as they were, in their order,
\* followed by the new task line.
C6_NewTaskLast ==
  (/\ last.outcome \in Written
   /\ last.worklogFile \in DOMAIN last.filesBefore
   /\ DayStarts(last.filesBefore[last.worklogFile], last.dailyHeader) # {}
   /\ \A i \in 1..Len(DayBullets(last.filesBefore[last.worklogFile], last.dailyHeader)) :
        ~IsTaskLineOf(DayBullets(last.filesBefore[last.worklogFile],
                                 last.dailyHeader)[i],
                      last.options.trackingId))
  => DayBullets(files[last.worklogFile], last.dailyHeader)
       = Append(DayBullets(last.filesBefore[last.worklogFile], last.dailyHeader),
                TaskLine(last.options.trackingId, last.options.summary))

\* ------------------------------------------------------------------------
\* C7
\* ------------------------------------------------------------------------
\* C7: in every worklog file the week headers appear in strictly descending
\* order of week number.
C7_WeeksDescending ==
  \A f \in DOMAIN files :
    LET ws == WeekNumbers(files[f])
    IN  \A i \in 1..(Len(ws) - 1) : ws[i] > ws[i + 1]

\* A call has just added a week between two weeks of a file that starts
\* with a header block.
C7_Witness ==
  /\ last.outcome \in Written
  /\ last.worklogFile \in DOMAIN last.filesBefore
  /\ LET before == WeekNumbers(last.filesBefore[last.worklogFile])
         after  == WeekNumbers(files[last.worklogFile])
     IN  /\ Len(before) = 2 /\ Len(after) = 3
         /\ after[2] = last.weekNumber
         /\ ~IsWeekHeader(files[last.worklogFile][1])

\* ------------------------------------------------------------------------
\* C8
\* ------------------------------------------------------------------------
\* C8: in every worklog file, a day header that follows another day header
\* of the same week section (no week header in between) has an earlier
\* date: the days of each week are in strictly descending order.
C8_DaysDescending ==
  \A f \in DOMAIN files :
    LET lines == files[f]
    IN  \A i \in 1..Len(lines) :
          IsDayHeader(lines[i]) =>
            LET next == NextHeader(lines, i)
            IN  (next <= Len(lines) /\ IsDayHeader(lines[next])) =>
                  DayNumber(lines[i]) > DayNumber(lines[next])

\* A call has just added a day that is later than a day logged before it in
\* the same week: the new day section stands above the old one.
C8_Witness ==
  /\ last.outcome \in Written
  /\ last.worklogFile \in DOMAIN last.filesBefore
  /\ DayStarts(last.filesBefore[last.worklogFile], last.dailyHeader) = {}
  /\ LET lines == files[last.worklogFile]
     IN  \E h \in DayStarts(lines, last.dailyHeader) :
           LET next == NextHeader(lines, h)
           IN  next <= Len(lines) /\ IsDayHeader(lines[next])

\* ------------------------------------------------------------------------
\* C9
\* ------------------------------------------------------------------------
\* C9: parsing a worklog file and rendering the sections gives the file
\* back, line for line.
C9_RoundTrip ==
  \A f \in DOMAIN files :
    LET parsed == parseWorklog(files[f])
    IN  ~parsed.error => Render(parsed.sections) = files[f]

\* ------------------------------------------------------------------------
\* C10
\* ------------------------------------------------------------------------
\* C10: a call without tracking id, without summary or without work items
\* ends with the missing-fields error, and the logs directory and every
\* file are as they were before the call.
C10_MissingFieldsNoIO ==
  (/\ last.outcome # "none"
   /\ \/ last.options.trackingId = <<>>
      \/ last.options.summary = <<>>
      \/ last.options.workItems = <<>>) =>
    /\ last.outcome = "MissingFields"
    /\ files = last.filesBefore
    /\ logsDir = last.logsDirBefore

\* A call with an empty list of work items has failed while the logs
\* directory does not exist.
C10_Witness ==
  /\ last.outcome = "MissingFields"
  /\ last.options.workItems = <<>>
  /\ last.options.trackingId # <<>>
  /\ ~logsDir

\* ------------------------------------------------------------------------
\* C11
\* ------------------------------------------------------------------------
\* C11: a call that has its required fields and whose date string is no
\* calendar date (the empty string included) ends with the invalid-date
\* error and leaves every file as it was.
C11_InvalidDateFails ==
  (/\ last.outcome # "none"
   /\ last.options.trackingId # <<>>
   /\ last.options.summary # <<>>
   /\ last.options.workItems # <<>>
   /\ DateParse(last.options.date) = NaN) =>
    /\ last.outcome = "InvalidDate"
    /\ files = last.filesBefore

\* ------------------------------------------------------------------------
\* C12
\* ------------------------------------------------------------------------
\* The day of the week of a day number by ISO 8601: 1 = Monday .. 7 = Sunday.
ISOWeekday(z) == ((z + 3) % 7) + 1

\* The ISO 8601 week number of a day number: the week of its Thursday,
\* counted from the first Thursday of that Thursday's year.
ISOWeek(z) ==
  LET thursday == z - ISOWeekday(z) + 4
      jan1     == DaysFromCivil(CivilFromDays(thursday).year, 1, 1)
      first    == CHOOSE d \in jan1..(jan1 + 6) : ISOWeekday(d) = 4
  IN  ((thursday - first) \div 7) + 1

\* C12: for a valid date YYYY-MM-DD, getWeekInfo gives the ISO 8601 week
\* number of that date, a number in 1..53.
C12_ISOWeekNumber ==
  (weekOut.done /\ DateParse(weekArg) # NaN) =>
    /\ ~weekOut.info.error
    /\ weekOut.info.weekNumber = ISOWeek(DateParse(weekArg))
    /\ weekOut.info.weekNumber \in 1..53

\* ------------------------------------------------------------------------
\* C13
\* ------------------------------------------------------------------------
\* C13: for a valid date, the week range of getWeekInfo starts on the
\* Monday on or before the date and ends six days later, on the Sunday on
\* or after it.
C13_WeekRange ==
  (weekOut.done /\ DateParse(weekArg) # NaN) =>
    LET t     == DateParse(weekArg)
        start == DateParse(weekOut.info.weekRange.start)
        end   == DateParse(weekOut.info.weekRange.end)
    IN  /\ start # NaN /\ end # NaN
        /\ ISOWeekday(start) = 1
        /\ end = start + 6
        /\ start <= t /\ t <= end

\* ------------------------------------------------------------------------
\* C14
\* ------------------------------------------------------------------------
\* YYYY-MM-DD written as YYYY/MM/DD.
DashToSlash(str) == [i \in 1..Len(str) |-> IF str[i] = "-" THEN "/" ELSE str[i]]

\* A sequence without the later repeats of its elements.
Distinct(seq) == Pick(seq, {i \in 1..Len(seq) : \A j \in 1..(i - 1) : seq[j] # seq[i]})

\* The lines the first entry of a new file shows, top to bottom, for a
\* call with date d: week header, placeholders, day header, task line and
\* work-item lines.
FirstEntryLines(call) ==
  LET items == Distinct(call.options.workItems)
  IN  << <<"#", "#", " ">> \o WeekHeaderText(ISOWeek(DateParse(call.dateStr))),
         NewWeekContent[2], NewWeekContent[4],
         DayPrefix \o DashToSlash(call.dateStr),
         TaskLine(call.options.trackingId, call.options.summary) >>
      \o [i \in 1..Len(items) |-> WorkLine(items[i])]

\* C14: a call that wrote a file that did not exist leaves a file that
\* starts with a title line and then shows, in this order, the header of
\* the ISO week of its date, the two placeholder lines, the day header of
\* its date, its task line and its work-item lines.
C14_FirstEntry ==
  (last.outcome \in Written /\ last.worklogFile \notin DOMAIN last.filesBefore) =>
    LET lines == files[last.worklogFile]
    IN  /\ StartsWith(lines[1], <<"#", " ">>)
        /\ IsSubsequence(FirstEntryLines(last), Tail(lines))

\* ------------------------------------------------------------------------
\* C15
\* ------------------------------------------------------------------------
\* The task lines of a tracking id in the day sections of a date.
TaskLinesOf(lines, dailyHeader, trackingId) ==
  {j \in 1..Len(lines) :
     /\ IsTaskLineOf(lines[j], trackingId)
     /\ \E h \in DayStarts(lines, dailyHeader) : j \in SectionBody(lines, h)}

\* A work-item line: a second-level list item.
IsItemLine(line) == StartsWith(line, <<" ", " ", "-", " ">>)

\* The work-item lines under the task lines of a tracking id on a date, in
\* text order.
ItemLinesOf(lines, dailyHeader, trackingId) ==
  Pick(lines, {k \in 1..Len(lines) :
                 /\ IsItemLine(lines[k])
                 /\ \E j \in TaskLinesOf(lines, dailyHeader, trackingId) :
                      k \in ItemBody(lines, j)})

\* C15: after a call for a tracking id that had a task line on the day of
\* the call, every task line of that id on that day carries the summary of
\* the call, and the work-item lines the entry had are still under it.
C15_LastSummaryWins ==
  (/\ last.outcome \in Written
   /\ last.worklogFile \in DOMAIN last.filesBefore
   /\ TaskLinesOf(last.filesBefore[last.worklogFile], last.dailyHeader,
                  last.options.trackingId) # {}) =>
    LET before == last.filesBefore[last.worklogFile]
        after  == files[last.worklogFile]
        old    == ItemLinesOf(before, last.dailyHeader, last.options.trackingId)
        new    == ItemLinesOf(after, last.dailyHeader, last.options.trackingId)
    IN  /\ \A j \in TaskLinesOf(after, last.dailyHeader, last.options.trackingId) :
             after[j] = TaskLine(last.options.trackingId, last.options.summary)
        /\ TaskLinesOf(after, last.dailyHeader, last.options.trackingId) # {}
        /\ \A i \in 1..Len(old) : \E k \in 1..Len(new) : new[k] = old[i]

\* ------------------------------------------------------------------------
\* C16
\* ------------------------------------------------------------------------
\* The work-item lines of a call that are not among the lines old, each
\* once, in the order of the call.
NewItemLines(old, workItems) ==
  LET given == Distinct([i \in 1..Len(workItems) |-> WorkLine(workItems[i])])
  IN  Pick(given, {i \in 1..Len(given) : \A k \in 1..Len(old) : old[k] # given[i]})

\* C16: after a call for a tracking id that had a task line on the day of
\* the call, the work-item lines of that id on that day are the lines it
\* had, in their order, followed by the items of the call that were not
\* among them, each once and in the order given.
C16_ItemsAppended ==
  (/\ last.outcome \in Written
   /\ last.worklogFile \in DOMAIN last.filesBefore
   /\ TaskLinesOf(last.filesBefore[last.worklogFile], last.dailyHeader,
                  last.options.trackingId) # {}) =>
    LET old == ItemLinesOf(last.filesBefore[last.worklogFile], last.dailyHeader,
                           last.options.trackingId)
    IN  ItemLinesOf(files[last.worklogFile], last.dailyHeader, last.options.trackingId)
          = old \o NewItemLines(old, last.options.workItems)

\* ------------------------------------------------------------------------
\* C17
\* ------------------------------------------------------------------------
\* Whether a day section is open at line i: a day header stands before it
\* with no week header between.
DayOpenAt(lines, i) ==
  \E d \in 1..(i - 1) :
    IsDayHeader(lines[d]) /\ \A m \in d..(i - 1) : ~IsWeekHeader(lines[m])

\* The week header lines before line i.
WeekHeadersBefore(lines, i) == {w \in 1..(i - 1) : IsWeekHeader(lines[w])}

\* The week sections of a parsed document, in order.
WeeksOf(sections) ==
  LET IsWeek(x) == x.type = "week"
  IN  SelectSeq(sections, IsWeek)

\* The task lines that stand where no day section is open.
StrayTaskLines(lines) ==
  {i \in 1..Len(lines) : TaskLineMatches(lines[i]) /\ ~DayOpenAt(lines, i)}

\* C17: when parseWorklog returns, a task line that stands where no day
\* section is open is a content line of the week section open there, at its
\* place after the week header, or a line of the header block when no week
\* is open; and no more tasks are parsed than there are task lines inside
\* day sections.
C17_TaskLineOutsideDay ==
  (parseOut.done /\ ~parseOut.error) =>
    LET lines == parseArg
        weeks == WeeksOf(parseOut.sections)
    IN  /\ \A i \in StrayTaskLines(lines) :
             LET ws == WeekHeadersBefore(lines, i)
             IN  IF ws = {}
                 THEN /\ parseOut.sections # <<>>
                      /\ parseOut.sections[1].type = "header"
                      /\ Len(parseOut.sections[1].lines) >= i
                      /\ parseOut.sections[1].lines[i] = lines[i]
                 ELSE /\ Len(weeks) >= Cardinality(ws)
                      /\ Len(weeks[Cardinality(ws)].content) >= i - SetMax(ws)
                      /\ weeks[Cardinality(ws)].content[i - SetMax(ws)] = lines[i]
        /\ Len(ParsedTaskLines(parseOut.sections))
             <= Cardinality({i \in 1..Len(lines) :
                               TaskLineMatches(lines[i]) /\ DayOpenAt(lines, i)})

\* parseWorklog has returned for a text with a task line right after the
\* week header and a task line inside the day section that follows.
C17_Witness ==
  /\ parseOut.done /\ ~parseOut.error
  /\ parseArg = <<WeekLine, TaskTextLine, DayLine, TaskTextLine>>
  /\ Len(ParsedTaskLines(parseOut.sections)) = 1

\* ------------------------------------------------------------------------
\* C18
\* ------------------------------------------------------------------------
\* C18: for a text without a week header line, parseWorklog returns without
\* error, and what it returns holds header blocks only.
C18_NoWeekHeaderTolerated ==
  (parseOut.done /\ \A i \in 1..Len(parseArg) : ~IsWeekHeader(parseArg[i])) =>
    /\ ~parseOut.error
    /\ \A k \in 1..Len(parseOut.sections) : parseOut.sections[k].type = "header"

\* ------------------------------------------------------------------------
\* C19
\* ------------------------------------------------------------------------
\* Every content line of a parsed document: the lines of the header blocks
\* and the content of the weeks, days and tasks.
ContentLines(sections) ==
  UNION {IF sections[k].type = "header"
         THEN {sections[k].lines[i] : i \in 1..Len(sections[k].lines)}
         ELSE {sections[k].content[i] : i \in 1..Len(sections[k].content)}
              \cup UNION {
                {sections[k].days[d].content[i] :
                   i \in 1..Len(sections[k].days[d].content)}
                \cup UNION {
                  {sections[k].days[d].tasks[t].content[i] :
                     i \in 1..Len(sections[k].days[d].tasks[t].content)} :
                  t \in 1..Len(sections[k].days[d].tasks)} :
                d \in 1..Len(sections[k].days)} :
         k \in 1..Len(sections)}

\* The lines inside a day section that start like a task line (`- ID:`) and
\* have no summary after the colon.
NoSummaryLines(lines) ==
  {i \in 1..Len(lines) :
     IsTaskLine(lines[i]) /\ ~TaskLineMatches(lines[i]) /\ DayOpenAt(lines, i)}

\* C19: for a text in which every day header follows a week header and a
\* line `- ID:` without summary stands inside a day section, parseWorklog
\* returns without error and keeps that line as a content line.
C19_NoSummaryLineKept ==
  (/\ parseOut.done
   /\ \A d \in 1..Len(parseArg) :
        IsDayHeader(parseArg[d]) => WeekHeadersBefore(parseArg, d) # {}
   /\ NoSummaryLines(parseArg) # {}) =>
    /\ ~parseOut.error
    /\ \A i \in NoSummaryLines(parseArg) :
         parseArg[i] \in ContentLines(parseOut.sections)

\* ------------------------------------------------------------------------
\* C20
\* ------------------------------------------------------------------------
\* The content a call writes: the file it read (or the title of a new
\* one), parsed, merged with the entry of the call and rendered.
MergedContent(call) ==
  Only({Render(Merge(parsed.sections, getWeekInfo(call.dateStr, behind),
                     call.dailyHeader, call.options.trackingId,
                     call.options.summary, call.options.workItems)) :
          parsed \in {parseWorklog(ReadOrCreate(call.filesBefore, call.worklogFile))}})

\* C20: when the formatter has failed, the call has ended as a failure, its
\* worklog file holds the merged content, with the task line and every
\* work-item line of the call, and the other files are as they were.
C20_WriteBeforeFormat ==
  (last.outcome = "exit1") =>
    /\ last.worklogFile \in DOMAIN files
    /\ files[last.worklogFile] = MergedContent(last)
    /\ LET lines == files[last.worklogFile]
       IN  /\ \E j \in 1..Len(lines) :
                lines[j] = TaskLine(last.options.trackingId, last.options.summary)
           /\ \A i \in 1..Len(last.options.workItems) :
                \E k \in 1..Len(lines) : lines[k] = WorkLine(last.options.workItems[i])
    /\ \A f \in DOMAIN last.filesBefore :
         f # last.worklogFile => files[f] = last.filesBefore[f]

\* The formatter has failed after a call changed a file that existed.
C20_Witness ==
  /\ last.outcome = "exit1"
  /\ last.worklogFile \in DOMAIN last.filesBefore
  /\ last.worklogFile \in DOMAIN files
  /\ files[last.worklogFile] # last.filesBefore[last.worklogFile]

\* ------------------------------------------------------------------------
\* C21
\* ------------------------------------------------------------------------
\* C21: a run of log_work.cjs ends with exit code 0 and a JSON success
\* payload on standard output, or with exit code 1 and a JSON error payload
\* on standard error; every run in which logWork did not return ends the
\* second way.
C21_TwoOutcomes ==
  (last.outcome # "none") =>
    LET run == MainResult(last.outcome)
    IN  /\ \/ run.exitCode = 0 /\ run.stdout = "JSON success"
           \/ run.exitCode = 1 /\ run.stderr = "JSON error"
        /\ last.outcome # "ok" => (run.exitCode = 1 /\ run.stderr = "JSON error")

\* ------------------------------------------------------------------------
\* C22
\* ------------------------------------------------------------------------
\* The text shows every step of the merge of a call: the header of its
\* week, the header of its day, its task line with its summary, and each of
\* its work-item lines.
AllApplied(call, lines) ==
  /\ \E i \in 1..Len(lines) :
       IsWeekHeader(lines[i]) /\ FirstNumber(lines[i]) = call.weekNumber
  /\ \E i \in 1..Len(lines) : lines[i] = DayPrefix \o call.dailyHeader
  /\ \E i \in 1..Len(lines) :
       lines[i] = TaskLine(call.options.trackingId, call.options.summary)
  /\ \A w \in 1..Len(call.options.workItems) :
       \E i \in 1..Len(lines) : lines[i] = WorkLine(call.options.workItems[w])

\* C22: after a call, either every file is as it was before the call, or
\* the worklog file of the call shows every step of the merge; a call that
\* did not get to the write leaves every file as it was.
C22_AllOrNothing ==
  (last.outcome # "none") =>
    /\ \/ files = last.filesBefore
       \/ /\ last.worklogFile \in DOMAIN files
          /\ AllApplied(last, files[last.worklogFile])
    /\ last.outcome \notin Written => files = last.filesBefore

\* A call has failed in the parser, after the file was read: the file is
\* there as it was.
C22_Witness ==
  /\ last.outcome = "TypeError"
  /\ last.worklogFile \in DOMAIN files
  /\ files = last.filesBefore

\* ------------------------------------------------------------------------
\* C23
\* ------------------------------------------------------------------------
\* C23: in every worklog file, the line before a week header, a day header
\* or a task line is blank and the line before that one is not: exactly one
\* blank line stands before each block.
C23_OneBlankLine ==
  \A f \in DOMAIN files :
    LET lines == files[f]
    IN  \A i \in 2..Len(lines) :
          (IsHeaderLine(lines[i]) \/ IsBullet(lines[i])) =>
            /\ lines[i - 1] = <<>>
            /\ i > 2 => lines[i - 2] # <<>>

\* ------------------------------------------------------------------------
\* C24
\* ------------------------------------------------------------------------
\* The day headers (dates) of a text.
DaysOf(lines) ==
  {SubSeq(lines[h], 5, 14) : h \in {i \in 1..Len(lines) : IsDayHeader(lines[i])}}

\* The work item stands in the text under another tracking id on the day
\* of the call, or under the tracking id of the call on another day.
ListedElsewhere(lines, call, item) ==
  \/ \E id \in TrackingIds \ {call.options.trackingId} :
       HasEntry(lines, call.dailyHeader, id, item)
  \/ \E day \in DaysOf(lines) \ {call.dailyHeader} :
       HasEntry(lines, day, call.options.trackingId, item)

\* C24: a work item that the file listed under another tracking id on the
\* same day, or under the same tracking id on another day, is listed under
\* the task entry of the call after the call; and the entry of the call
\* holds only items that were logged for its tracking id on its day.
C24_DedupPerTaskEntry ==
  (last.outcome \in Written /\ last.worklogFile \in DOMAIN last.filesBefore) =>
    LET before == last.filesBefore[last.worklogFile]
        after  == files[last.worklogFile]
        shown  == ItemLinesOf(after, last.dailyHeader, last.options.trackingId)
    IN  /\ \A w \in 1..Len(last.options.workItems) :
             ListedElsewhere(before, last, last.options.workItems[w]) =>
               HasEntry(after, last.dailyHeader, last.options.trackingId,
                        last.options.workItems[w])
        /\ \A k \in 1..Len(shown) :
             \E e \in logged :
               /\ e.file = last.worklogFile /\ e.day = last.dailyHeader
               /\ e.trackingId = last.options.trackingId
               /\ WorkLine(e.item) = shown[k]

\* ------------------------------------------------------------------------
\* C25: initProject for a project name whose project.json already exists
\* fails with an error and changes nothing under the worklogs root: no
\* project directory and no logs directory is created, and the existing
\* project.json is not overwritten.
\* ------------------------------------------------------------------------
HadProjectJson ==
  /\ lastInit.outcome # "none"
  /\ lastInit.projectName \in DOMAIN lastInit.projectsBefore
  /\ lastInit.projectsBefore[lastInit.projectName].config # <<>>

C25_ExistingProjectKept ==
  HadProjectJson =>
    /\ lastInit.outcome = "error"
    /\ projects = lastInit.projectsBefore
    /\ logsDir = lastInit.logsDirBefore

C25_Witness ==
  /\ HadProjectJson
  /\ lastInit.outcome = "error"
  /\ ~lastInit.logsDirBefore
  /\ lastInit.options.issueTrackerType = "jira"

\* C25 as stated: the failing call changes nothing on the file system at all.
C25_NothingChanges ==
  HadProjectJson =>
    /\ lastInit.outcome = "error"
    /\ projects = lastInit.projectsBefore
    /\ logsDir = lastInit.logsDirBefore
    /\ userConfig = lastInit.userConfigBefore

\* ------------------------------------------------------------------------
\* C26
\* ------------------------------------------------------------------------
\* The week number of the week section line i stands in.
WeekOfLine(lines, i) == FirstNumber(lines[SetMax(WeekHeadersBefore(lines, i))])

\* C26: in every worklog file written from a missing file, each day header
\* stands under a week header, and the number of that week header is the
\* ISO 8601 week number of the date of the day header.
C26_DayUnderItsWeek ==
  \A f \in DOMAIN files :
    LET lines == files[f]
    IN  \A i \in 1..Len(lines) :
          IsDayHeader(lines[i]) =>
            /\ WeekHeadersBefore(lines, i) # {}
            /\ WeekOfLine(lines, i) = ISOWeek(DayNumber(lines[i]))

\* A December file with day sections in week 52 and in week 1.
C26_Witness ==
  \E f \in DOMAIN files :
    LET lines == files[f]
    IN  \E i, j \in 1..Len(lines) :
          /\ IsDayHeader(lines[i]) /\ IsDayHeader(lines[j])
          /\ WeekOfLine(lines, i) = 52
          /\ WeekOfLine(lines, j) = 1

\* ------------------------------------------------------------------------
\* C27
\* ------------------------------------------------------------------------
\* The week header lines of a week number.
WeekLinesOf(lines, weekNumber) ==
  {i \in 1..Len(lines) : IsWeekHeader(lines[i]) /\ FirstNumber(lines[i]) = weekNumber}

\* The day header lines of a date in the week sections of a week number,
\* with or without text after the date.
DayLinesOf(lines, weekNumber, dailyHeader) ==
  {i \in 1..Len(lines) :
     /\ IsDayHeader(lines[i])
     /\ StartsWith(lines[i], DayPrefix \o dailyHeader)
     /\ WeekHeadersBefore(lines, i) # {}
     /\ WeekOfLine(lines, i) = weekNumber}

\* C27: a call that wrote a file that had a week header line for its week
\* number leaves no more week header lines of that number than there were,
\* and when that week had a day header line for its date, with or without
\* text after the date, it leaves no more day header lines of that date.
C27_NoSecondSection ==
  (last.outcome \in Written /\ last.worklogFile \in DOMAIN last.filesBefore) =>
    LET before == last.filesBefore[last.worklogFile]
        after  == files[last.worklogFile]
        n      == last.weekNumber
        h      == last.dailyHeader
    IN  /\ WeekLinesOf(before, n) # {} =>
              Cardinality(WeekLinesOf(after, n)) <= Cardinality(WeekLinesOf(before, n))
        /\ DayLinesOf(before, n, h) # {} =>
              Cardinality(DayLinesOf(after, n, h)) <= Cardinality(DayLinesOf(before, n, h))

\* ------------------------------------------------------------------------
\* C28
\* ------------------------------------------------------------------------
\* The day numbers of the day headers of a text, top to bottom.
DayNumbersOf(lines) ==
  LET hs == SelectSeq(lines, IsDayHeader)
  IN  [i \in 1..Len(hs) |-> DayNumber(hs[i])]

\* C28: in every worklog file the day headers, read top to bottom across
\* all week sections, go from the latest date to the earliest.
C28_FileNewestFirst ==
  \A f \in DOMAIN files :
    LET ds == DayNumbersOf(files[f])
    IN  \A i, j \in 1..Len(ds) : i < j => ds[i] > ds[j]

\* ------------------------------------------------------------------------
\* C29: every task parseTaskInput returns has a summary that is neither
\* null nor empty; an id on a line of its own that no summary line follows
\* gives no task.
\* ------------------------------------------------------------------------
C29_EveryTaskHasSummary ==
  taskOut.done =>
    \A i \in 1..Len(taskOut.tasks) : taskOut.tasks[i].summary # <<>>

\* ------------------------------------------------------------------------
\* C30: a run of logCommits that has read its commits goes through every
\* commit date, whatever logWork does for a date, and returns a result
\* with one entry per commit date, in order, that carries the counts or
\* the error message of that date.
\* ------------------------------------------------------------------------
C30_FailuresIsolated ==
  (commits.status \in {"returned", "exited"}) =>
    /\ commits.status = "returned"
    /\ Len(commits.dates) = Len(commits.byDate)
    /\ \A i \in 1..Len(commits.dates) :
         /\ commits.dates[i].date = commits.byDate[i].date
         /\ \/ commits.dates[i].error # "none"
            \/ /\ commits.dates[i].commitCount = Len(commits.byDate[i].commits)
               /\ commits.dates[i].workItems = Len(commits.byDate[i].commits)

====
